---- MODULE Spec2Model ----
(***************************************************************************)
(* A model of app.py: the WhisperX transcription pipeline                  *)
(* (transcribe_audio), its two transcript formatters and format_timestamp. *)
(*                                                                         *)
(* Representation.  A Python str is a sequence of pieces; a piece is one   *)
(* character ("a", " ", "7") or one fixed literal of an f-string or        *)
(* constant ("] ", "No transcription results.").  Concatenation is \o.     *)
(* Optional[T] is <<>> for None and <<v>> for a value v.  A dict is a      *)
(* function whose DOMAIN is the set of keys present.  Times are whole      *)
(* seconds.  A progress fraction is kept in hundredths (0.05 is 5).        *)
(***************************************************************************)
EXTENDS Integers, Sequences, FiniteSets, TLC

VARIABLES
    \* format_timestamp called on its own
    ts_seconds, ts_result,
    \* one call of format_transcript_with_speakers, run an iteration at a time,
    \* and one call of format_transcript_simple on the same argument
    segments, fpc, pos, lines, current_speaker, current_text_parts,
    segment_start_time, with_speakers_ret, simple_ret,
    \* the process: os.environ, torch's thread count, the files written
    environ, torch_num_threads, files,
    \* the invocations of transcribe_audio: locals, position, return value
    call

ts_vars == <<ts_seconds, ts_result>>
fmt_vars == <<segments, fpc, pos, lines, current_speaker, current_text_parts,
              segment_start_time, with_speakers_ret, simple_ret>>
proc_vars == <<environ, torch_num_threads, files>>
vars == <<ts_vars, fmt_vars, proc_vars, call>>

(***************************************************************************)
(* Bounds of the model.                                                    *)
(***************************************************************************)
MaxHours == 101
MaxSegments == 3
MaxResultSegments == 2
MaxThreads == 2
NumInvocations == 2

(***************************************************************************)
(* Python values.                                                          *)
(***************************************************************************)
None == <<>>
Some(v) == <<v>>
Value(o) == o[1]

\* dict.get(key, default)
Get(d, key, default) == IF key \in DOMAIN d THEN d[key] ELSE default

Range(f) == {f[x] : x \in DOMAIN f}

Whitespace == {" ", "\n", "\t"}

RECURSIVE LStrip(_)
LStrip(s) == IF s # <<>> /\ s[1] \in Whitespace THEN LStrip(Tail(s)) ELSE s

RECURSIVE RStrip(_)
RStrip(s) ==
    IF s # <<>> /\ s[Len(s)] \in Whitespace
    THEN RStrip(SubSeq(s, 1, Len(s) - 1))
    ELSE s

\* str.strip()
Strip(s) == RStrip(LStrip(s))

\* sep.join(parts)
RECURSIVE Join(_, _)
Join(sep, parts) ==
    IF parts = <<>> THEN <<>>
    ELSE IF Len(parts) = 1 THEN parts[1]
    ELSE parts[1] \o sep \o Join(sep, Tail(parts))

DigitChars == <<"0", "1", "2", "3", "4", "5", "6", "7", "8", "9">>

\* str(n) of a natural number
RECURSIVE Str(_)
Str(n) == IF n < 10 THEN <<DigitChars[n + 1]>>
          ELSE Str(n \div 10) \o <<DigitChars[(n % 10) + 1]>>

\* f"{n:02d}"
Pad2(n) == IF n < 10 THEN <<"0">> \o Str(n) ELSE Str(n)

(***************************************************************************)
(* format_timestamp                                                        *)
(***************************************************************************)
Hours(seconds) == seconds \div 3600
Minutes(seconds) == (seconds % 3600) \div 60
Secs(seconds) == seconds % 60

FormatTimestampWrapped(seconds) ==
    Pad2(Hours(seconds) % 100) \o <<":">> \o Pad2(Minutes(seconds))
        \o <<":">> \o Pad2(Secs(seconds))

FormatTimestamp(seconds) ==
    Pad2(Hours(seconds)) \o <<":">> \o Pad2(Minutes(seconds))
        \o <<":">> \o Pad2(Secs(seconds))

(***************************************************************************)
(* format_transcript_with_speakers                                         *)
(***************************************************************************)
NoResults == <<"No transcription results.">>
UNKNOWN == "UNKNOWN"

\* The locals of the loop.
Locals(ls, spk, parts, start) ==
    [lines |-> ls, current_speaker |-> spk, current_text_parts |-> parts,
     segment_start_time |-> start]

InitialLocals == Locals(<<>>, None, <<>>, None)

\* f"[{timestamp}] {current_speaker}: {combined_text}" of the open block
BlockLine(st) ==
    <<"[">> \o FormatTimestamp(Value(st.segment_start_time)) \o <<"] ">>
        \o <<Value(st.current_speaker)>> \o <<": ">>
        \o Join(<<" ">>, st.current_text_parts)

\* "if current_speaker is not None and current_text_parts: lines.append(...)"
Flush(st) ==
    IF st.current_speaker # None /\ st.current_text_parts # <<>>
    THEN Append(st.lines, BlockLine(st))
    ELSE st.lines

\* Two slips of the loop body: the speaker test made before the blank-text
\* test, and a new block opened without its first text.
LoopBodySplitOnBlank(st, segment) ==
    LET speaker == Get(segment, "speaker", UNKNOWN)
        text == Strip(Get(segment, "text", <<>>))
        start_time == Get(segment, "start", 0)
    IN  IF Some(speaker) # st.current_speaker
        THEN Locals(Flush(st), Some(speaker),
                    IF text = <<>> THEN <<>> ELSE <<text>>, Some(start_time))
        ELSE IF text = <<>> THEN st
        ELSE [st EXCEPT !.current_text_parts = Append(@, text)]

LoopBodyDropsSeed(st, segment) ==
    LET speaker == Get(segment, "speaker", UNKNOWN)
        text == Strip(Get(segment, "text", <<>>))
        start_time == Get(segment, "start", 0)
    IN  IF text = <<>> THEN st
        ELSE IF Some(speaker) # st.current_speaker
        THEN Locals(Flush(st), Some(speaker), <<>>, Some(start_time))
        ELSE [st EXCEPT !.current_text_parts = Append(@, text)]

\* One iteration of "for segment in segments".
LoopBody(st, segment) ==
    LET speaker == Get(segment, "speaker", UNKNOWN)
        text == Strip(Get(segment, "text", <<>>))
        start_time == Get(segment, "start", 0)
    IN  IF text = <<>> THEN st
        ELSE IF Some(speaker) # st.current_speaker
        THEN Locals(Flush(st), Some(speaker), <<text>>, Some(start_time))
        ELSE [st EXCEPT !.current_text_parts = Append(@, text)]

RECURSIVE RunLoop(_, _)
RunLoop(st, segs) ==
    IF segs = <<>> THEN st ELSE RunLoop(LoopBody(st, Head(segs)), Tail(segs))

Paragraphs(ls) == Join(<<"\n\n">>, ls)

FormatTranscriptWithSpeakers(segs) ==
    IF segs = <<>> THEN NoResults
    ELSE Paragraphs(Flush(RunLoop(InitialLocals, segs)))

(***************************************************************************)
(* format_transcript_simple                                                *)
(***************************************************************************)
SimpleLine(segment) ==
    <<"[">> \o FormatTimestamp(Get(segment, "start", 0)) \o <<"] ">>
        \o Strip(Get(segment, "text", <<>>))

RECURSIVE SimpleLines(_)
SimpleLines(segs) ==
    IF segs = <<>> THEN <<>>
    ELSE (IF Strip(Get(Head(segs), "text", <<>>)) # <<>>
          THEN <<SimpleLine(Head(segs))>> ELSE <<>>)
         \o SimpleLines(Tail(segs))

FormatTranscriptSimpleNoSentinel(segs) == Paragraphs(SimpleLines(segs))

FormatTranscriptSimple(segs) ==
    IF segs = <<>> THEN NoResults ELSE Paragraphs(SimpleLines(segs))

(***************************************************************************)
(* The inputs the formatters and format_timestamp are run on.              *)
(***************************************************************************)
EmptyDict == [k \in {} |-> None]

\* A segment dict; a key is present when its argument is not None.
Segment(speaker, text, start) ==
    (IF speaker # None THEN "speaker" :> Value(speaker) ELSE EmptyDict)
        @@ (IF text # None THEN "text" :> Value(text) ELSE EmptyDict)
        @@ (IF start # None THEN "start" :> Value(start) ELSE EmptyDict)

SpeakerChoices == {None, Some("A"), Some("B")}
TextChoices == {None, Some(<<" ">>), Some(<<"a">>), Some(<<" ", "b", " ">>)}

\* A segment sequence in chronological order: the p-th segment starts at
\* (p - 1) * 3661 seconds, or no segment carries a "start" key.
SegmentShapes(n) == [1..n -> SpeakerChoices \X TextChoices]

SegmentsOf(shape, timed) ==
    [p \in DOMAIN shape |->
        Segment(shape[p][1], shape[p][2],
                IF timed THEN Some((p - 1) * 3661) ELSE None)]

TimeInputs ==
    { h * 3600 + m * 60 + s :
        h \in {0, 1, 9, 10, 99, 100, MaxHours},
        m \in {0, 1, 9, 10, 59},
        s \in {0, 1, 9, 10, 59} }

TsIdle == ts_seconds = 0 /\ ts_result = None

FmtIdle ==
    /\ segments = <<>>
    /\ fpc = "idle"
    /\ pos = 0
    /\ lines = <<>>
    /\ current_speaker = None
    /\ current_text_parts = <<>>
    /\ segment_start_time = None
    /\ with_speakers_ret = None
    /\ simple_ret = None

(***************************************************************************)
(* format_timestamp, called once.                                          *)
(***************************************************************************)
FormatTimestampCall ==
    /\ ts_result = None
    /\ ts_result' = Some(FormatTimestamp(ts_seconds))
    /\ UNCHANGED <<ts_seconds, fmt_vars, proc_vars, call>>

(***************************************************************************)
(* format_transcript_with_speakers, one loop iteration per step, then      *)
(* format_transcript_simple on the same segments.                          *)
(***************************************************************************)
LoopLocals ==
    Locals(lines, current_speaker, current_text_parts, segment_start_time)

SetLocals(st) ==
    /\ lines' = st.lines
    /\ current_speaker' = st.current_speaker
    /\ current_text_parts' = st.current_text_parts
    /\ segment_start_time' = st.segment_start_time

WithSpeakersEnter ==
    /\ fpc = "call"
    /\ IF segments = <<>>
       THEN /\ with_speakers_ret' = Some(NoResults)
            /\ fpc' = "returned"
            /\ UNCHANGED <<pos, lines, current_speaker, current_text_parts,
                           segment_start_time>>
       ELSE /\ SetLocals(InitialLocals)
            /\ pos' = 1
            /\ fpc' = "loop"
            /\ UNCHANGED with_speakers_ret
    /\ UNCHANGED <<segments, simple_ret, ts_vars, proc_vars, call>>

WithSpeakersIterate ==
    /\ fpc = "loop"
    /\ pos <= Len(segments)
    /\ SetLocals(LoopBody(LoopLocals, segments[pos]))
    /\ pos' = pos + 1
    /\ UNCHANGED <<segments, fpc, with_speakers_ret, simple_ret, ts_vars,
                   proc_vars, call>>

WithSpeakersExit ==
    /\ fpc = "loop"
    /\ pos > Len(segments)
    /\ lines' = Flush(LoopLocals)
    /\ with_speakers_ret' = Some(Paragraphs(lines'))
    /\ fpc' = "returned"
    /\ UNCHANGED <<segments, pos, current_speaker, current_text_parts,
                   segment_start_time, simple_ret, ts_vars, proc_vars, call>>

SimpleCall ==
    /\ fpc = "returned"
    /\ simple_ret = None
    /\ simple_ret' = Some(FormatTranscriptSimple(segments))
    /\ UNCHANGED <<segments, fpc, pos, lines, current_speaker,
                   current_text_parts, segment_start_time, with_speakers_ret,
                   ts_vars, proc_vars, call>>

(***************************************************************************)
(* transcribe_audio                                                        *)
(***************************************************************************)
Invocations == 1..NumInvocations

\* Python truthiness of an Optional[str]
Truthy(o) == o # None /\ Value(o) # <<>>

\* os.getenv(name)
Getenv(env, name) == IF name \in DOMAIN env THEN Some(env[name]) ELSE None

\* x or y
Or(x, y) == IF Truthy(x) THEN x ELSE y

GetHfTokenFromEnv(env) ==
    Or(Getenv(env, "HF_TOKEN"), Getenv(env, "HUGGINGFACE_TOKEN"))

EffectiveTokenUntrimmed(hf_token, env_token) ==
    IF Truthy(hf_token) THEN hf_token ELSE env_token

\* hf_token.strip() if hf_token and hf_token.strip() else env_token
EffectiveToken(hf_token, env_token) ==
    IF Truthy(hf_token) /\ Strip(Value(hf_token)) # <<>>
    THEN Some(Strip(Value(hf_token)))
    ELSE env_token

\* The locals of an invocation that has not started.  progress is what the
\* invocation has sent to its progress tracker; trace is the history of the
\* external calls it made, each with what it returned and the process-wide
\* thread settings in force when it ran.
IdleCall ==
    [pc |-> "idle", audio_file |-> None, model_size |-> None,
     hf_token |-> None, num_threads |-> None, env_token |-> None,
     effective_token |-> None, result |-> None,
     diarization_success |-> FALSE, token_source |-> None,
     transcript |-> None, ret |-> None, progress |-> <<>>, trace |-> <<>>]

Progress(c, fraction, desc) ==
    [c EXCEPT !.progress = Append(@, [fraction |-> fraction, desc |-> desc])]

\* return text, path
Return(c, text, path) ==
    [c EXCEPT !.pc = "returned", !.ret = Some([text |-> text, path |-> path])]

Traced(c, stage, raised, out, env, torch) ==
    [c EXCEPT !.trace = Append(@, [stage |-> stage, raised |-> raised,
                                   out |-> out,
                                   omp |-> Getenv(env, "OMP_NUM_THREADS"),
                                   torch |-> torch])]

\* What an external call does: it returns, or raises an exception e.
Returns == [raised |-> FALSE, e |-> <<>>]
Raises(e) == [raised |-> TRUE, e |-> e]
ErrorMessages == {<<"boom">>}
Outcomes == {Returns} \cup {Raises(e) : e \in ErrorMessages}

\* Lines 138-153: the argument check, the credential, the thread settings.
Invoke(i, audio_file, model_size, hf_token, num_threads) ==
    /\ call[i].pc = "idle"
    /\ LET c == [call[i] EXCEPT !.audio_file = audio_file,
                                !.model_size = Some(model_size),
                                !.hf_token = hf_token,
                                !.num_threads = Some(num_threads)]
       IN  IF ~Truthy(audio_file)
           THEN /\ call' = [call EXCEPT ![i] =
                      Return(c, <<"Please upload an audio file.">>, None)]
                /\ UNCHANGED <<environ, torch_num_threads>>
           ELSE /\ environ' = ("OMP_NUM_THREADS" :> Str(num_threads)) @@ environ
                /\ torch_num_threads' = Some(num_threads)
                /\ call' = [call EXCEPT ![i] =
                      Progress(
                        [c EXCEPT !.pc = "load_model",
                                  !.env_token = GetHfTokenFromEnv(environ),
                                  !.effective_token =
                                      EffectiveToken(hf_token,
                                                     GetHfTokenFromEnv(environ))],
                        5, <<"Loading Whisper model...">>)]
    /\ UNCHANGED <<files, ts_vars, fmt_vars>>

\* Lines 155-166.
LoadModelRaisedContinues(c, e) ==
    Progress([c EXCEPT !.pc = "transcribe"], 15,
             <<"Error loading model: ">> \o e)

LoadModelRaised(c, e) == Return(c, <<"Error loading model: ">> \o e, None)

LoadModelReturned(c) ==
    Progress([c EXCEPT !.pc = "transcribe"], 15,
             <<"Transcribing audio (this may take a while for long files)...">>)

LoadModel(i, outcome) ==
    /\ call[i].pc = "load_model"
    /\ LET c == Traced(call[i], "load_model", outcome.raised, None,
                       environ, torch_num_threads)
       IN  call' = [call EXCEPT ![i] =
                      IF outcome.raised THEN LoadModelRaised(c, outcome.e)
                      ELSE LoadModelReturned(c)]
    /\ UNCHANGED <<proc_vars, ts_vars, fmt_vars>>

\* Lines 168-175.
TranscribeRaised(c, e) ==
    Return(c, <<"Error during transcription: ">> \o e, None)

TranscribeReturned(c, transcribed) ==
    Progress([c EXCEPT !.pc = "align", !.result = Some(transcribed)], 50,
             <<"Aligning transcript...">>)

Transcribe(i, outcome, transcribed) ==
    /\ call[i].pc = "transcribe"
    /\ LET c == Traced(call[i], "transcribe", outcome.raised,
                       IF outcome.raised THEN None ELSE Some(transcribed),
                       environ, torch_num_threads)
       IN  call' = [call EXCEPT ![i] =
                      IF outcome.raised THEN TranscribeRaised(c, outcome.e)
                      ELSE TranscribeReturned(c, transcribed)]
    /\ UNCHANGED <<proc_vars, ts_vars, fmt_vars>>

\* Lines 177-194.
AlignRaisedLosesResult(c, e) ==
    Progress([c EXCEPT !.result = Some("segments" :> <<>>)], 50,
             <<"Alignment warning: ">> \o e \o <<", continuing...">>)

AlignRaised(c, e) ==
    Progress(c, 50, <<"Alignment warning: ">> \o e \o <<", continuing...">>)

AlignReturned(c, aligned) == [c EXCEPT !.result = Some(aligned)]

\* Lines 201-211.
BeginDiarization(c) ==
    LET c0 == [c EXCEPT !.diarization_success = FALSE,
                        !.token_source = None]
    IN  IF Truthy(c0.effective_token)
        THEN Progress(
               [c0 EXCEPT !.pc = "diarize",
                          !.token_source =
                              IF Truthy(c0.hf_token)
                                 /\ Strip(Value(c0.hf_token)) # <<>>
                              THEN Some("UI input") ELSE Some(".env file")],
               65,
               <<"Performing speaker diarization (token from ",
                 IF Truthy(c0.hf_token) /\ Strip(Value(c0.hf_token)) # <<>>
                 THEN "UI input" ELSE ".env file",
                 ")...">>)
        ELSE [c0 EXCEPT !.pc = "format"]

Align(i, outcome, aligned) ==
    /\ call[i].pc = "align"
    /\ LET c == Traced(call[i], "align", outcome.raised,
                       IF outcome.raised THEN None ELSE Some(aligned),
                       environ, torch_num_threads)
       IN  call' = [call EXCEPT ![i] =
                      BeginDiarization(
                        IF outcome.raised THEN AlignRaised(c, outcome.e)
                        ELSE AlignReturned(c, aligned))]
    /\ UNCHANGED <<proc_vars, ts_vars, fmt_vars>>

\* Lines 213-234.
DiarizeRaisedEarlierFraction(c, e) ==
    Progress([c EXCEPT !.pc = "format"], 50,
             <<"Diarization failed: ">> \o e
                 \o <<", continuing without speaker labels...">>)

DiarizeRaised(c, e) ==
    Progress([c EXCEPT !.pc = "format"], 65,
             <<"Diarization failed: ">> \o e
                 \o <<", continuing without speaker labels...">>)

DiarizeReturned(c, diarized) ==
    [c EXCEPT !.pc = "format", !.result = Some(diarized),
              !.diarization_success = TRUE]

Diarize(i, outcome, diarized) ==
    /\ call[i].pc = "diarize"
    /\ LET c == Traced(call[i], "diarize", outcome.raised,
                       IF outcome.raised THEN None ELSE Some(diarized),
                       environ, torch_num_threads)
       IN  call' = [call EXCEPT ![i] =
                      IF outcome.raised THEN DiarizeRaised(c, outcome.e)
                      ELSE DiarizeReturned(c, diarized)]
    /\ UNCHANGED <<proc_vars, ts_vars, fmt_vars>>

\* Lines 236-249.
Notice ==
    <<"NOTE: No HuggingFace token provided (neither in UI nor .env file) - speaker diarization disabled.\n\n">>

FormatOutputNoticeOnFallback(c) ==
    LET segs == Get(Value(c.result), "segments", <<>>)
    IN  IF c.diarization_success
        THEN FormatTranscriptWithSpeakers(segs)
        ELSE Notice \o FormatTranscriptSimple(segs)

FormatOutput(c) ==
    LET segs == Get(Value(c.result), "segments", <<>>)
    IN  IF c.diarization_success
        THEN FormatTranscriptWithSpeakers(segs)
        ELSE IF ~Truthy(c.effective_token)
        THEN Notice \o FormatTranscriptSimple(segs)
        ELSE FormatTranscriptSimple(segs)

Format(i) ==
    /\ call[i].pc = "format"
    /\ call' = [call EXCEPT ![i] =
          Progress(
            [Progress(call[i], 90, <<"Formatting output...">>)
                EXCEPT !.pc = "save",
                       !.transcript = Some(FormatOutput(call[i]))],
            95, <<"Saving transcript...">>)]
    /\ UNCHANGED <<proc_vars, ts_vars, fmt_vars>>

\* Lines 251-265.  Path(audio_file).stem and .name of <<stem, suffix>>.
Stem(path) == <<path[1]>>
Name(path) == path

\* os.path.join(tempfile.mkdtemp(), f"{input_filename}_transcript.txt"):
\* mkdtemp makes a directory no earlier call made.
OutputPath(c, written) ==
    <<"/tmp/tmp">> \o Str(Cardinality(written)) \o <<"/">>
        \o Stem(Value(c.audio_file)) \o <<"_transcript.txt">>

FileContent(c) ==
    <<"Transcription of: ">> \o Name(Value(c.audio_file)) \o <<"\n">>
        \o <<"Model: ", Value(c.model_size), "\n">>
        \o <<"Speaker diarization: ",
             IF c.diarization_success THEN "Yes" ELSE "No", "\n">>
        \o <<"Generated: ", "%Y-%m-%d %H:%M:%S", "\n">>
        \o <<"============================================================",
             "\n\n">>
        \o Value(c.transcript)

Save(i) ==
    /\ call[i].pc = "save"
    /\ files' = files \cup { [path |-> OutputPath(call[i], files),
                              content |-> FileContent(call[i])] }
    /\ call' = [call EXCEPT ![i] =
          Return(Progress(call[i], 100, <<"Complete!">>),
                 Value(call[i].transcript),
                 Some(OutputPath(call[i], files)))]
    /\ UNCHANGED <<environ, torch_num_threads, ts_vars, fmt_vars>>

(***************************************************************************)
(* What the external collaborators hand back.                              *)
(***************************************************************************)
\* model.transcribe: segments with "text" and "start", in time order.
TranscribeResults ==
    UNION { { "segments" :>
                [p \in 1..n |-> Segment(None, Some(texts[p]),
                                        Some((p - 1) * 61))] :
              texts \in [1..n -> {<<" ", "a">>, <<" ">>}] } :
            n \in 0..MaxResultSegments }

\* whisperx.align: the same segments with refined start times.
AlignResult(result) ==
    "segments" :>
        [p \in DOMAIN result["segments"] |->
            [result["segments"][p] EXCEPT !["start"] = @ + 1]]

\* whisperx.assign_word_speakers: a "speaker" key on the segments that
\* overlap a speaker turn.
DiarizeResults(result) ==
    { "segments" :>
        [p \in DOMAIN result["segments"] |->
            (IF who[p] # None THEN "speaker" :> Value(who[p]) ELSE EmptyDict)
                @@ result["segments"][p]] :
      who \in [DOMAIN result["segments"] ->
                 {None, Some("SPEAKER_00"), Some("SPEAKER_01")}] }

AudioInputs == {None, Some(<<>>), Some(<<"talk", ".wav">>)}
TokenInputs ==
    {None, Some(<<>>), Some(<<" ">>), Some(<<"t">>), Some(<<" ", "t", " ">>)}
EnvInputs ==
    { (IF a # None THEN "HF_TOKEN" :> Value(a) ELSE EmptyDict)
          @@ (IF b # None THEN "HUGGINGFACE_TOKEN" :> Value(b) ELSE EmptyDict) :
      a \in {None, Some(<<>>), Some(<<" ">>), Some(<<"e">>)},
      b \in {None, Some(<<>>), Some(<<"h">>)} }

CallsIdle == call = [i \in Invocations |-> IdleCall]
ProcIdle == torch_num_threads = None /\ files = {}

(***************************************************************************)
(* Specifications.                                                         *)
(***************************************************************************)
\* One invocation of transcribe_audio, on every input and environment.
Init ==
    /\ TsIdle /\ FmtIdle /\ CallsIdle /\ ProcIdle
    /\ environ \in EnvInputs

InvokeOne ==
    \E a \in AudioInputs, t \in TokenInputs, n \in 1..MaxThreads :
        Invoke(1, a, "medium", t, n)
LoadModelOne == \E o \in Outcomes : LoadModel(1, o)
TranscribeOne == \E o \in Outcomes, r \in TranscribeResults : Transcribe(1, o, r)
AlignOne ==
    /\ call[1].pc = "align"
    /\ \E o \in Outcomes : Align(1, o, AlignResult(Value(call[1].result)))
DiarizeOne ==
    /\ call[1].pc = "diarize"
    /\ \E o \in Outcomes, r \in DiarizeResults(Value(call[1].result)) :
          Diarize(1, o, r)

Next ==
    \/ InvokeOne
    \/ LoadModelOne
    \/ TranscribeOne
    \/ AlignOne
    \/ DiarizeOne
    \/ Format(1)
    \/ Save(1)

Spec == Init /\ [][Next]_vars

\* format_timestamp on its own.
InitTimestamp ==
    /\ ts_seconds \in TimeInputs /\ ts_result = None
    /\ FmtIdle /\ CallsIdle /\ ProcIdle /\ environ = EmptyDict

NextTimestamp == FormatTimestampCall

SpecTimestamp == InitTimestamp /\ [][NextTimestamp]_vars

\* The two formatters on every segment sequence.
InitFormatter ==
    /\ \E n \in 0..MaxSegments, timed \in BOOLEAN :
          \E shape \in SegmentShapes(n) : segments = SegmentsOf(shape, timed)
    /\ fpc = "call" /\ pos = 0 /\ lines = <<>>
    /\ current_speaker = None /\ current_text_parts = <<>>
    /\ segment_start_time = None
    /\ with_speakers_ret = None /\ simple_ret = None
    /\ TsIdle /\ CallsIdle /\ ProcIdle /\ environ = EmptyDict

NextFormatter ==
    \/ WithSpeakersEnter
    \/ WithSpeakersIterate
    \/ WithSpeakersExit
    \/ SimpleCall

SpecFormatter == InitFormatter /\ [][NextFormatter]_vars

\* Two invocations served at once, as the interface's click handler allows:
\* each with its own thread count, a credential in the environment.
InitConcurrent ==
    /\ TsIdle /\ FmtIdle /\ CallsIdle /\ ProcIdle
    /\ environ = ("HF_TOKEN" :> <<"e">>)

InvokeAny ==
    \E i \in Invocations, n \in 1..MaxThreads :
        Invoke(i, Some(<<"talk", ".wav">>), "medium", None, n)
LoadModelAny == \E i \in Invocations, o \in Outcomes : LoadModel(i, o)
TranscribeAny ==
    \E i \in Invocations, o \in Outcomes :
        Transcribe(i, o, "segments" :> <<Segment(None, Some(<<" ", "a">>), Some(0))>>)
AlignAny ==
    \E i \in Invocations :
        /\ call[i].pc = "align"
        /\ \E o \in Outcomes : Align(i, o, AlignResult(Value(call[i].result)))
DiarizeAny ==
    \E i \in Invocations :
        /\ call[i].pc = "diarize"
        /\ \E o \in Outcomes :
              Diarize(i, o,
                      "segments" :>
                          [p \in DOMAIN Value(call[i].result)["segments"] |->
                              ("speaker" :> "SPEAKER_00")
                                  @@ Value(call[i].result)["segments"][p]])
FormatAny == \E i \in Invocations : Format(i)
SaveAny == \E i \in Invocations : Save(i)

NextConcurrent ==
    \/ InvokeAny
    \/ LoadModelAny
    \/ TranscribeAny
    \/ AlignAny
    \/ DiarizeAny
    \/ FormatAny
    \/ SaveAny

SpecConcurrent == InitConcurrent /\ [][NextConcurrent]_vars

(***************************************************************************)
(* Reading a rendered string back, and what the claims call a trimmed      *)
(* text, a blank segment, a speaker label and a run.                       *)
(***************************************************************************)
MinOf(S) == CHOOSE x \in S : \A y \in S : x <= y
MaxOf(S) == CHOOSE x \in S : \A y \in S : y <= x

\* The pieces of s between the occurrences of the piece sep.
RECURSIVE SplitOn(_, _)
SplitOn(s, sep) ==
    LET at == {k \in 1..Len(s) : s[k] = sep}
    IN  IF at = {} THEN <<s>>
        ELSE <<SubSeq(s, 1, MinOf(at) - 1)>>
                 \o SplitOn(SubSeq(s, MinOf(at) + 1, Len(s)), sep)

\* The pieces of s after the first occurrence of the piece sep.
After(s, sep) ==
    SubSeq(s, MinOf({k \in 1..Len(s) : s[k] = sep}) + 1, Len(s))

IsDigits(s) == \A k \in 1..Len(s) : \E d \in 0..9 : DigitChars[d + 1] = s[k]

RECURSIVE NatOf(_)
NatOf(s) ==
    IF s = <<>> THEN 0
    ELSE 10 * NatOf(SubSeq(s, 1, Len(s) - 1))
             + (CHOOSE d \in 0..9 : DigitChars[d + 1] = s[Len(s)])

Trimmed(s) ==
    LET ink == {k \in 1..Len(s) : s[k] \notin Whitespace}
    IN  IF ink = {} THEN <<>> ELSE SubSeq(s, MinOf(ink), MaxOf(ink))

TextOf(seg) == IF "text" \in DOMAIN seg THEN Trimmed(seg["text"]) ELSE <<>>
LabelOf(seg) == IF "speaker" \in DOMAIN seg THEN seg["speaker"] ELSE "UNKNOWN"
StartOf(seg) == IF "start" \in DOMAIN seg THEN seg["start"] ELSE 0

\* The positions of the segments of segs whose trimmed text is not empty.
NonBlank(segs) == {p \in 1..Len(segs) : TextOf(segs[p]) # <<>>}

\* The positions that begin a maximal run of same-speaker segments of the
\* non-blank subsequence.
RunStarts(segs) ==
    {p \in NonBlank(segs) :
        LET before == {q \in NonBlank(segs) : q < p}
        IN  before = {} \/ LabelOf(segs[MaxOf(before)]) # LabelOf(segs[p])}

\* The run that begins at p.
RunAt(segs, p) ==
    {q \in NonBlank(segs) :
        q >= p /\ \A r \in RunStarts(segs) : ~(p < r /\ r <= q)}

RECURSIVE Ascending(_)
Ascending(S) ==
    IF S = {} THEN <<>> ELSE <<MinOf(S)>> \o Ascending(S \ {MinOf(S)})

TextsAt(segs, S) == [k \in 1..Cardinality(S) |-> TextOf(segs[Ascending(S)[k]])]

\* The line the claim describes for the run that begins at p.
RunLine(segs, p) ==
    <<"[">> \o FormatTimestamp(StartOf(segs[p])) \o <<"] ">>
        \o <<LabelOf(segs[p])>> \o <<": ">>
        \o Join(<<" ">>, TextsAt(segs, RunAt(segs, p)))

(***************************************************************************)
(* Claims about format_timestamp (SpecTimestamp).                          *)
(***************************************************************************)
\* C8: for every whole s >= 0, format_timestamp(s) reads back as three fields
\* of digits HH:MM:SS with HH = s div 3600, MM = (s mod 3600) div 60 and
\* SS = s mod 60; MM and SS are in 0..59 and exactly two digits, HH has at
\* least two digits and is neither wrapped nor capped (three digits from
\* s = 360000 on), and HH*3600 + MM*60 + SS = s.
C8_TimestampFields ==
    ts_result # None =>
        LET f == SplitOn(Value(ts_result), ":")
        IN  /\ Len(f) = 3
            /\ \A k \in 1..3 : IsDigits(f[k]) /\ Len(f[k]) >= 2
            /\ NatOf(f[1]) = ts_seconds \div 3600
            /\ NatOf(f[2]) = (ts_seconds % 3600) \div 60
            /\ NatOf(f[3]) = ts_seconds % 60
            /\ NatOf(f[2]) \in 0..59 /\ Len(f[2]) = 2
            /\ NatOf(f[3]) \in 0..59 /\ Len(f[3]) = 2
            /\ NatOf(f[1]) * 3600 + NatOf(f[2]) * 60 + NatOf(f[3]) = ts_seconds
            /\ (ts_seconds >= 360000 <=> Len(f[1]) > 2)

C8_Witness ==
    /\ ts_result # None
    /\ ts_seconds >= 360000
    /\ ts_seconds % 3600 # 0
    /\ Len(Value(ts_result)) = 9

(***************************************************************************)
(* Claims about the formatters (SpecFormatter).                            *)
(***************************************************************************)
\* C4: on a non-empty segment sequence, format_transcript_with_speakers
\* returns, in input order and joined by blank lines, exactly one line per
\* maximal run of same-speaker segments of the non-blank subsequence; the
\* line carries the run's label (UNKNOWN without a speaker), the start of the
\* run's first segment and the run's trimmed texts joined by single spaces.
C4_OneLinePerRun ==
    (fpc = "returned" /\ segments # <<>>) =>
        LET starts == Ascending(RunStarts(segments))
        IN  /\ Len(lines) = Len(starts)
            /\ \A k \in 1..Len(starts) : lines[k] = RunLine(segments, starts[k])
            /\ with_speakers_ret = Some(Join(<<"\n\n">>, lines))
            /\ with_speakers_ret = Some(FormatTranscriptWithSpeakers(segments))

\* A blank segment of another speaker sits inside a run, which stays one line.
C4_Witness ==
    /\ fpc = "returned"
    /\ Len(segments) = 3
    /\ NonBlank(segments) = {1, 3}
    /\ LabelOf(segments[1]) = LabelOf(segments[3])
    /\ LabelOf(segments[2]) # LabelOf(segments[1])
    /\ Len(lines) = 1

\* The texts of the rendered lines, one after the other.
TextParts(ls) == [k \in 1..Len(ls) |-> After(ls[k], ": ")]

\* C9: both formatters return the sentinel 'No transcription results.', not
\* an empty string, on an empty segment sequence; and no line either one
\* emits has a text part that is empty after trimming.
C9_SentinelAndNoEmptyLine ==
    /\ (segments = <<>> /\ with_speakers_ret # None) =>
           with_speakers_ret = Some(NoResults) /\ Value(with_speakers_ret) # <<>>
    /\ (segments = <<>> /\ simple_ret # None) =>
           simple_ret = Some(NoResults) /\ Value(simple_ret) # <<>>
    /\ \A k \in 1..Len(lines) : Trimmed(After(lines[k], ": ")) # <<>>
    /\ (segments # <<>> /\ with_speakers_ret # None
            /\ Value(with_speakers_ret) # <<>>) =>
           \A l \in Range(SplitOn(Value(with_speakers_ret), "\n\n")) :
               Trimmed(After(l, ": ")) # <<>>
    /\ (segments # <<>> /\ simple_ret # None /\ Value(simple_ret) # <<>>) =>
           \A l \in Range(SplitOn(Value(simple_ret), "\n\n")) :
               Trimmed(After(l, "] ")) # <<>>

C9_Witness ==
    /\ segments = <<>>
    /\ with_speakers_ret = Some(NoResults)
    /\ simple_ret = Some(NoResults)

\* C10: at every point of the loop an open block (current_speaker set) has a
\* non-empty fragment list and a start time, so neither flush suppresses an
\* opened block; and the texts in the lines emitted so far followed by the
\* open block's fragments are exactly the trimmed texts of the non-blank
\* segments consumed so far, each once and in order (at the end: every
\* non-blank segment's text is in exactly one line), also for segments
\* without a speaker label.
C10_OpenBlockHasText ==
    /\ fpc = "loop" =>
          /\ current_speaker # None =>
                current_text_parts # <<>> /\ segment_start_time # None
          /\ Join(<<" ">>, TextParts(lines)
                             \o (IF current_text_parts = <<>> THEN <<>>
                                 ELSE <<Join(<<" ">>, current_text_parts)>>))
               = Join(<<" ">>,
                      TextsAt(segments,
                              {p \in NonBlank(segments) : p < pos}))
    /\ (fpc = "returned" /\ segments # <<>>) =>
          /\ Join(<<" ">>, TextParts(lines))
               = Join(<<" ">>, TextsAt(segments, NonBlank(segments)))
          /\ Len(lines) = Cardinality(RunStarts(segments))

C10_Witness ==
    /\ fpc = "returned"
    /\ Len(lines) >= 2
    /\ \E p \in NonBlank(segments) : "speaker" \notin DOMAIN segments[p]

(***************************************************************************)
(* Claims about transcribe_audio (Spec: one invocation).                   *)
(***************************************************************************)
RaisedIn(c, stage) ==
    \E k \in DOMAIN c.trace : c.trace[k].stage = stage /\ c.trace[k].raised
ReturnedFrom(c, stage) ==
    \E k \in DOMAIN c.trace : c.trace[k].stage = stage /\ ~c.trace[k].raised
Stages(c) == [k \in DOMAIN c.trace |-> c.trace[k].stage]
Fractions(c) == [k \in DOMAIN c.progress |-> c.progress[k].fraction]

Started(c) == c.pc # "idle"
GaveFile(c) == c.pc = "returned" /\ Value(c.ret).path # None

\* What the last external call that returned data handed back.
LastData(c) ==
    Value(c.trace[MaxOf({k \in DOMAIN c.trace : c.trace[k].out # None})].out)

\* The credential as the claims state it, from the inputs.
EnvDefault(env) ==
    IF "HF_TOKEN" \in DOMAIN env /\ env["HF_TOKEN"] # <<>>
    THEN Some(env["HF_TOKEN"])
    ELSE IF "HUGGINGFACE_TOKEN" \in DOMAIN env
    THEN Some(env["HUGGINGFACE_TOKEN"])
    ELSE None

Credential(hf_token, env) ==
    IF hf_token # None /\ Trimmed(Value(hf_token)) # <<>>
    THEN Some(Trimmed(Value(hf_token)))
    ELSE EnvDefault(env)

NoCredential(hf_token, env) ==
    Credential(hf_token, env) = None \/ Credential(hf_token, env) = Some(<<>>)

Warned(c, fraction, prefix) ==
    \E k \in DOMAIN c.progress :
        c.progress[k].fraction = fraction /\ c.progress[k].desc[1] = prefix

EndsWith(s, t) ==
    Len(t) <= Len(s) /\ SubSeq(s, Len(s) - Len(t) + 1, Len(s)) = t

\* The piece that follows the piece label in a file's content.
HeaderValue(content, label) ==
    content[MinOf({k \in 1..Len(content) : content[k] = label}) + 1]

FileAt(path) == CHOOSE f \in files : f.path = path

NoOutput(c) == files = {} /\ c.transcript = None /\ Value(c.ret).path = None

\* C1: when the audio input is missing, or load_model raises, or
\* load_audio/transcribe raises, the invocation returns at once the pair
\* (error message, None): no file is created and no later stage runs (no
\* further external call, no further progress event, no transcript).
C1_FatalReturnsNoFile ==
    \A i \in Invocations :
        LET c == call[i]
        IN  /\ (Started(c) /\ ~Truthy(c.audio_file)) =>
                  /\ c.pc = "returned"
                  /\ Value(c.ret).text = <<"Please upload an audio file.">>
                  /\ NoOutput(c)
                  /\ c.trace = <<>> /\ c.progress = <<>>
            /\ RaisedIn(c, "load_model") =>
                  /\ c.pc = "returned"
                  /\ \E e \in ErrorMessages :
                        Value(c.ret).text = <<"Error loading model: ">> \o e
                  /\ NoOutput(c)
                  /\ Stages(c) = <<"load_model">>
                  /\ Fractions(c) = <<5>>
            /\ RaisedIn(c, "transcribe") =>
                  /\ c.pc = "returned"
                  /\ \E e \in ErrorMessages :
                        Value(c.ret).text = <<"Error during transcription: ">> \o e
                  /\ NoOutput(c)
                  /\ Stages(c) = <<"load_model", "transcribe">>
                  /\ Fractions(c) = <<5, 15>>

C1_Witness ==
    /\ call[1].pc = "returned"
    /\ RaisedIn(call[1], "load_model")
    /\ Value(call[1].ret).path = None

\* C2: once the audio is present and load_model and transcribe have
\* returned, the invocation never returns without a file: whatever alignment
\* and diarization do, it goes on to the writer and returns the transcript
\* with the path of a file that holds it.  A failure of alignment or of
\* diarization only sends a warning to the progress tracker; the data
\* formatted is what the last stage that returned handed back.
C2_DegradedStillWritesFile ==
    \A i \in Invocations :
        LET c == call[i]
        IN  ReturnedFrom(c, "transcribe") =>
              /\ c.pc \in {"align", "diarize", "format", "save", "returned"}
              /\ c.result = Some(LastData(c))
              /\ RaisedIn(c, "align") => Warned(c, 50, "Alignment warning: ")
              /\ RaisedIn(c, "diarize") => Warned(c, 65, "Diarization failed: ")
              /\ c.pc = "returned" =>
                    /\ Value(c.ret).path # None
                    /\ Value(c.ret).text = Value(c.transcript)
                    /\ \E f \in files :
                          /\ f.path = Value(Value(c.ret).path)
                          /\ EndsWith(f.content, Value(c.ret).text)
                    /\ \E body \in {FormatTranscriptSimple(LastData(c)["segments"]),
                                    FormatTranscriptWithSpeakers(
                                        LastData(c)["segments"])} :
                          Value(c.ret).text \in {body, Notice \o body}

C2_Witness ==
    /\ GaveFile(call[1])
    /\ RaisedIn(call[1], "align")
    /\ RaisedIn(call[1], "diarize")
    /\ Len(LastData(call[1])["segments"]) = MaxResultSegments

\* C3: on a run that returns a file, the transcript is the speaker-aware
\* format exactly when diarization was attempted and returned, and the
\* no-speaker format otherwise; the no-credential notice is prepended
\* exactly when no effective credential was available; and the file's
\* 'Speaker diarization' header says Yes exactly when the speaker-aware
\* formatter was used.
C3_FormatterNoticeHeader ==
    \A i \in Invocations :
        LET c == call[i]
        IN  GaveFile(c) =>
              LET data == LastData(c)["segments"]
                  text == Value(c.ret).text
                  file == FileAt(Value(Value(c.ret).path))
              IN  /\ ReturnedFrom(c, "diarize") =>
                        text = FormatTranscriptWithSpeakers(data)
                  /\ (~ReturnedFrom(c, "diarize")
                          /\ NoCredential(c.hf_token, environ)) =>
                        text = Notice \o FormatTranscriptSimple(data)
                  /\ (~ReturnedFrom(c, "diarize")
                          /\ ~NoCredential(c.hf_token, environ)) =>
                        text = FormatTranscriptSimple(data)
                  /\ (text # <<>> /\ text[1] = Notice[1])
                        <=> NoCredential(c.hf_token, environ)
                  /\ HeaderValue(file.content, "Speaker diarization: ")
                        = (IF ReturnedFrom(c, "diarize") THEN "Yes" ELSE "No")

\* A credential was there, diarization raised: fallback format, no notice.
C3_Witness ==
    /\ GaveFile(call[1])
    /\ ~NoCredential(call[1].hf_token, environ)
    /\ RaisedIn(call[1], "diarize")
    /\ LastData(call[1])["segments"] # <<>>
    /\ Value(call[1].ret).text
         = FormatTranscriptSimple(LastData(call[1])["segments"])

\* C5: the effective credential is the explicit hf_token, trimmed, when that
\* is non-blank after trimming, and otherwise the environment default
\* (HF_TOKEN if non-empty, else HUGGINGFACE_TOKEN); diarization is attempted
\* exactly when it is non-empty; and without any credential a run whose
\* model load and transcription return still returns a transcript and a file.
C5_EffectiveCredential ==
    \A i \in Invocations :
        LET c == call[i]
        IN  (Started(c) /\ Truthy(c.audio_file)) =>
              /\ c.effective_token = Credential(c.hf_token, environ)
              /\ (c.pc \in {"format", "save"} \/ GaveFile(c)) =>
                    ("diarize" \in Range(Stages(c))
                        <=> ~NoCredential(c.hf_token, environ))
              /\ c.pc \in {"load_model", "transcribe", "align"} =>
                    "diarize" \notin Range(Stages(c))
              /\ (NoCredential(c.hf_token, environ) /\ c.pc = "returned"
                      /\ ~RaisedIn(c, "load_model")
                      /\ ~RaisedIn(c, "transcribe")) =>
                    /\ GaveFile(c)
                    /\ c.transcript # None
                    /\ \E f \in files : f.path = Value(Value(c.ret).path)

\* A blank explicit token gives way to the secondary environment variable.
C5_Witness ==
    /\ GaveFile(call[1])
    /\ call[1].hf_token = Some(<<" ">>)
    /\ Getenv(environ, "HF_TOKEN") = Some(<<>>)
    /\ call[1].effective_token = Some(<<"h">>)
    /\ ReturnedFrom(call[1], "diarize")

\* C6: the progress fractions an invocation emits never decrease and never
\* exceed 1 (two consecutive events carry the same fraction only when the
\* second is the alignment or diarization warning); 1.0 is emitted exactly
\* on the runs that return a file path, and is then the last event.
C6_ProgressMonotone ==
    \A i \in Invocations :
        LET c == call[i]
            f == Fractions(c)
        IN  /\ \A k \in 1..Len(f) : 0 < f[k] /\ f[k] <= 100
            /\ \A k \in 1..(Len(f) - 1) :
                  /\ f[k] <= f[k + 1]
                  /\ f[k] = f[k + 1] =>
                        c.progress[k + 1].desc[1]
                            \in {"Alignment warning: ", "Diarization failed: "}
            /\ (\E k \in 1..Len(f) : f[k] = 100) <=> GaveFile(c)
            /\ \A k \in 1..Len(f) : f[k] = 100 => k = Len(f)
            /\ (c.pc = "returned" /\ ~GaveFile(c)) => 100 \notin Range(f)

C6_Witness ==
    /\ GaveFile(call[1])
    /\ Warned(call[1], 50, "Alignment warning: ")
    /\ Warned(call[1], 65, "Diarization failed: ")
    /\ Fractions(call[1]) = <<5, 15, 50, 50, 65, 65, 90, 95, 100>>

(***************************************************************************)
(* Claims about concurrent invocations (SpecConcurrent).                   *)
(***************************************************************************)
\* C7: concurrent invocations share no mutable state: every external call
\* an invocation makes runs under the thread count that invocation was
\* given (OMP_NUM_THREADS and torch's thread count), as if it ran alone.
C7_InvocationsIndependent ==
    \A i \in Invocations :
        \A k \in DOMAIN call[i].trace :
            /\ call[i].trace[k].torch = call[i].num_threads
            /\ call[i].trace[k].omp = Some(Str(Value(call[i].num_threads)))

====
